---------------------------- MODULE Spec2Model ----------------------------
(***************************************************************************)
(* Model of "True 3D.cpp": a render worker that captures the screen,       *)
(* estimates a depth map (AdvancedDepthGenerator::Analyze), blurs, warps   *)
(* and tints the frame in place (CreateEnhancedDepthOverlay), and a UI     *)
(* thread whose WindowProc mutates the global configuration dcfg under     *)
(* g_configMutex.                                                          *)
(*                                                                         *)
(* Numbers.  The program computes in float; the model computes in fixed    *)
(* point with FP units per 1.0 (0.001), products and quotients truncated   *)
(* toward zero.  BYTE channels are integers 0..255, int coordinates are    *)
(* integers.  Float-to-int casts truncate toward zero as in C++.           *)
(***************************************************************************)
EXTENDS Integers, Sequences, FiniteSets, TLC

(***************************************************************************)
(* Bounds of the model.                                                    *)
(***************************************************************************)
W == 6                  \* SCREEN_WIDTH of the modelled screen (pixels)
H == 5                  \* SCREEN_HEIGHT of the modelled screen (pixels)
MaxFrames == 3          \* frames the render worker produces in one run
MaxKeys == 1            \* WM_KEYDOWN messages delivered in one run
MaxHistoryFrames == 2   \* largest history_frames drawn at start-up

(***************************************************************************)
(* Program constants.                                                      *)
(***************************************************************************)
TARGET_FPS == 60
FRAME_DELAY == 1000 \div TARGET_FPS

FP == 10 * 10 * 10      \* fixed-point units per 1.0f

(***************************************************************************)
(* Fixed-point arithmetic standing for the float operations of the source. *)
(***************************************************************************)
\* F(v) with v evaluated once
With(v, F(_)) == CHOOSE r \in {F(x) : x \in {v}} : TRUE

\* The arithmetic primitives are functions: an argument is evaluated once.
Abs[a \in Int] == IF a < 0 THEN -a ELSE a
Sgn[a \in Int] == IF a < 0 THEN -1 ELSE 1
MinOf[a \in Int, b \in Int] == IF b < a THEN b ELSE a      \* std::min
MaxOf[a \in Int, b \in Int] == IF a < b THEN b ELSE a      \* std::max

\* a * b for fixed-point a, b (truncated toward zero; split so that the
\* intermediate product stays within 32 bits)
MulNat[x \in Nat, y \in Nat] == (x \div FP) * y + ((x % FP) * y) \div FP
Mul[a \in Int, b \in Int] ==
    IF a = 0 \/ b = 0 THEN 0 ELSE Sgn[a] * Sgn[b] * MulNat[Abs[a], Abs[b]]

\* a / b for fixed-point a, b with b # 0
DivNat[x \in Nat, y \in Nat] == (x \div y) * FP + ((x % y) * FP) \div y
Div[a \in Int, b \in Int] == Sgn[a] * Sgn[b] * DivNat[Abs[a], Abs[b]]

\* static_cast<int>(float): truncation toward zero
Trunc[a \in Int] == IF a < 0 THEN -((-a) \div FP) ELSE a \div FP

\* fmod(a, m): remainder with the sign of the dividend
Fmod[a \in Int, m \in Int] == IF a < 0 THEN -((-a) % m) ELSE a % m

\* template clamp: std::max(minVal, std::min(value, maxVal))
clamp[value \in Int, minVal \in Int, maxVal \in Int] ==
    MaxOf[minVal, MinOf[value, maxVal]]

\* sqrt of a fixed-point value in [0, FP]
Sqrt[a \in Int] == CHOOSE r \in 0..FP : r * r <= a * FP /\ (r + 1) * (r + 1) > a * FP

\* pow(e, 2.5f) for e >= 0, saturated at FP (the caller clamps to [0, 1])
Pow25[e \in Int] == IF e >= FP THEN FP ELSE Mul[Mul[e, e], Sqrt[e]]

Pi == 3142              \* pi in fixed point
HalfPi == 1571
TwoPi == 6283

\* sin on [0, pi/2] by its Taylor polynomial of degree 7
\* x - x^3/3! + x^5/5! - x^7/7!, nested
SinQuadrant[x \in Int] ==
    With(Mul[x, x], LAMBDA x2 :
        clamp[Mul[x, FP - Mul[x2, FP - Mul[x2, FP - x2 \div 42] \div 20] \div 6],
              0, FP])

\* the angle in [0, pi/2] with the same |sin| as r in [0, 2 pi)
Reflect[r \in Int] ==
    IF (r % Pi) <= HalfPi THEN r % Pi ELSE Pi - (r % Pi)

\* sin(p) for p >= 0
Sin[p \in Int] ==
    (IF (p % TwoPi) <= Pi THEN 1 ELSE -1) * SinQuadrant[Reflect[p % TwoPi]]

\* cos(p) for p >= 0
Cos[p \in Int] == Sin[p + HalfPi]

\* exp(-(d2) / (2 r r)) for the blur radii 1..3 and squared distances d2
GaussWeight(r, d2) ==
    LET t == <<
          \* r = 1: exp(-d2/2), d2 = 0, 1, 2
          [d \in 0..18 |-> CASE d = 0 -> 1000 [] d = 1 -> 607 [] d = 2 -> 368
                             [] OTHER -> 0],
          \* r = 2: exp(-d2/8), d2 = 0, 1, 2, 4, 5, 8
          [d \in 0..18 |-> CASE d = 0 -> 1000 [] d = 1 -> 882 [] d = 2 -> 779
                             [] d = 4 -> 607 [] d = 5 -> 535 [] d = 8 -> 368
                             [] OTHER -> 0],
          \* r = 3: exp(-d2/18), d2 = 0, 1, 2, 4, 5, 8, 9, 10, 13, 18
          [d \in 0..18 |-> CASE d = 0 -> 1000 [] d = 1 -> 946 [] d = 2 -> 895
                             [] d = 4 -> 801 [] d = 5 -> 757 [] d = 8 -> 641
                             [] d = 9 -> 607 [] d = 10 -> 574 [] d = 13 -> 486
                             [] d = 18 -> 368 [] OTHER -> 0] >>
    IN  t[r][d2]

(***************************************************************************)
(* The frame: W x H cells, cell (x, y) at index y * W + x.  A pixel is the *)
(* tuple <<B, G, R, A>> (byte offsets 0..3 of the 32-bit BGRA pixel).      *)
(***************************************************************************)
Cells == 0..(W * H - 1)
Idx(x, y) == y * W + x
XOf(i) == i % W
YOf(i) == i \div W
Interior(i) == XOf(i) >= 2 /\ XOf(i) < W - 2 /\ YOf(i) >= 2 /\ YOf(i) < H - 2

Gray(v) == [i \in Cells |-> <<v, v, v, 255>>]

\* What CaptureScreen can return: the desktop contents at capture time.
EdgeScreen ==                                      \* a vertical edge
    [i \in Cells |-> IF XOf(i) < W \div 2 THEN <<0, 0, 0, 255>>
                     ELSE <<255, 255, 255, 255>>]
Screens == {Gray(128), Gray(0), EdgeScreen}        \* and solid gray, solid black

(***************************************************************************)
(* struct DepthIllusionConfig and its default member initialisers.         *)
(***************************************************************************)
DefaultConfig ==
    [ depth_intensity       |-> 250000,
      edge_boost            |-> 10000,
      base_shift            |-> 20000,
      perspective_strength  |-> 4500,
      phase                 |-> 0,
      phase_speed           |-> 100,
      alpha                 |-> 245,
      vertical_shift        |-> 200,
      color_intensity       |-> 300,
      blur_radius           |-> 2500,
      luminance_influence   |-> 1400,
      texture_influence     |-> 10600,
      motion_factor         |-> 8800,
      focus_distance        |-> 500,
      focus_range           |-> 600,
      wave_amplitude        |-> 100,
      wave_frequency        |-> 1,
      temporal_smoothing    |-> TRUE,
      history_frames        |-> 60,
      enable_iridescence    |-> TRUE,
      iridescence_intensity |-> 7700,
      iridescence_speed     |-> 1020,
      iridescence_scale     |-> 100,
      hue_range             |-> 1000,
      hue_offset            |-> 0 ]


(***************************************************************************)
(* AdvancedDepthGenerator                                                  *)
(***************************************************************************)
RECURSIVE SumTo(_, _)
\* t(1) + ... + t(n): a float accumulation loop of n iterations
SumTo(t(_), n) == IF n = 0 THEN 0 ELSE SumTo(t, n - 1) + t(n)

InFrame(x, y) == x >= 0 /\ x < W /\ y >= 0 /\ y < H

\* the k-th offset <<i, j>>, k in 1..(2r+1)^2, of the loops
\* for (i = -r..r) for (j = -r..r)
OffsetAt(r, k) == << ((k - 1) \div (2 * r + 1)) - r, ((k - 1) % (2 * r + 1)) - r >>
OffsetCount(r) == (2 * r + 1) * (2 * r + 1)

\* the 3x3 kernel skips its centre, the 5x5 kernel the inner 3x3
InKernel3(o) == ~(o[1] = 0 /\ o[2] = 0)
InKernel5(o) == ~(Abs[o[1]] <= 1 /\ Abs[o[2]] <= 1)

\* coordinates CalculateEdgeStrength reads for the cell (x, y)
EdgeReads(x, y) ==
    {<<x, y>>} \cup
    {<<x + o[1], y + o[2]>> :
        o \in {q \in (-2..2) \X (-2..2) : InFrame(x + q[1], y + q[2])}}

\* CalculateEdgeStrength: the value stored in textureMap[y][x]
CalculateEdgeStrength(pixels, x, y, cfg) ==
    LET c == pixels[Idx(x, y)]
        Diff(o, wr, wg, wb) ==
            IF InFrame(x + o[1], y + o[2])
            THEN LET n == pixels[Idx(x + o[1], y + o[2])]
                 IN  Abs[c[3] - n[3]] * wr + Abs[c[2] - n[2]] * wg + Abs[c[1] - n[1]] * wb
            ELSE 0
        edge1 == SumTo(LAMBDA k : IF InKernel3(OffsetAt(1, k))
                                  THEN Diff(OffsetAt(1, k), 900, 1000, 800) ELSE 0,
                       OffsetCount(1))
        edge2 == SumTo(LAMBDA k : IF InKernel5(OffsetAt(2, k))
                                  THEN Diff(OffsetAt(2, k), 700, 900, 600) ELSE 0,
                       OffsetCount(2))
        edge == Mul[(Mul[edge1, 600] + Mul[edge2, 400]) \div 3000, cfg.edge_boost]
    IN  clamp[Pow25[edge], 0, FP]

\* luminanceMap[y][x]
Luminance(pixels, i) ==
    (299 * pixels[i][3] + 587 * pixels[i][2] + 114 * pixels[i][1]) \div 255

\* a variant whose focus plane moves with the animation phase
FocusAdjustmentAtPhase(normalizedDepth, cfg) ==
    IF cfg.focus_range = 0 THEN 0
    ELSE FP - MinOf[Div[Abs[normalizedDepth - cfg.focus_distance - cfg.phase],
                        cfg.focus_range], FP]

\* 1.0f - std::min(std::abs(normalizedDepth - focus_distance) / focus_range, 1.0f).
\* With focus_range = 0 the quotient is +inf (min gives 1, the adjustment is 0)
\* or, when the numerator is 0 too, NaN: the product is then NaN and clamp
\* (std::max(0, std::min(NaN, 1))) stores 0, the same cell value as an
\* adjustment of 0.
FocusAdjustment(normalizedDepth, cfg) ==
    IF cfg.focus_range = 0 THEN 0
    ELSE FP - MinOf[Div[Abs[normalizedDepth - cfg.focus_distance], cfg.focus_range], FP]

\* a variant that stores the product without clamping it
CellDepthUnclamped(pixels, i, cfg) ==
    LET depthFromTexture == Mul[CalculateEdgeStrength(pixels, XOf(i), YOf(i), cfg),
                                cfg.texture_influence]
        depthFromLuminance == Mul[FP - Luminance(pixels, i), cfg.luminance_influence]
        perspectiveBias == Mul[(YOf(i) * FP) \div H, 200]
    IN  With(depthFromTexture + depthFromLuminance + perspectiveBias,
             LAMBDA normalizedDepth :
                Mul[Mul[normalizedDepth, FocusAdjustment(normalizedDepth, cfg)],
                    cfg.depth_intensity])

\* the value Analyze stores in currentDepthMap[y][x] for an interior cell
CellDepth(pixels, i, cfg) ==
    LET depthFromTexture == Mul[CalculateEdgeStrength(pixels, XOf(i), YOf(i), cfg),
                                cfg.texture_influence]
        depthFromLuminance == Mul[FP - Luminance(pixels, i), cfg.luminance_influence]
        perspectiveBias == Mul[(YOf(i) * FP) \div H, 200]
    IN  With(depthFromTexture + depthFromLuminance + perspectiveBias,
             LAMBDA normalizedDepth :
                clamp[Mul[Mul[normalizedDepth, FocusAdjustment(normalizedDepth, cfg)],
                          cfg.depth_intensity], 0, FP])

\* a variant whose loops start at 1 and end at width - 1, height - 1
EstimatedCellsFromOne ==
    {i \in Cells : XOf(i) >= 1 /\ XOf(i) < W - 1 /\ YOf(i) >= 1 /\ YOf(i) < H - 1}

\* the cells the estimator loops write: 2 <= x < width - 2, 2 <= y < height - 2
EstimatedCells == {i \in Cells : Interior(i)}

\* currentDepthMap before temporal smoothing: 0 outside the estimated cells
RawDepthMap(pixels, cfg) ==
    [i \in Cells |-> IF i \in EstimatedCells THEN CellDepth(pixels, i, cfg) ELSE 0]

RECURSIVE SmoothAcc(_, _, _, _, _, _)
\* the history loop of ApplyTemporalSmoothing for one cell: <<sum, totalWeight>>
SmoothAcc(hist, i, cfg, frame, sum, totalWeight) ==
    IF frame > Len(hist) \/ frame > cfg.history_frames
    THEN <<sum, totalWeight>>
    ELSE LET frameWeight == FP \div (frame + 1)
         IN  SmoothAcc(hist, i, cfg, frame + 1,
                       sum + Mul[hist[frame][i], frameWeight],
                       totalWeight + frameWeight)

\* a variant that stores the sum without dividing it by totalWeight
ApplyTemporalSmoothingUndivided(currentMap, cfg, hist) ==
    [i \in Cells |-> SmoothAcc(hist, i, cfg, 1, currentMap[i], FP)[1]]

\* ApplyTemporalSmoothing: every cell becomes sum / totalWeight
ApplyTemporalSmoothing(currentMap, cfg, hist) ==
    [i \in Cells |->
        With(SmoothAcc(hist, i, cfg, 1, currentMap[i], FP),
             LAMBDA acc : Div[acc[1], acc[2]])]

\* a variant that lets the history grow one map beyond history_frames
HistoryTooLongByTwo(size, history_frames) ==
    history_frames >= 0 /\ size > history_frames + 1

\* depthHistory.size() > dcfg.history_frames, an unsigned comparison
HistoryTooLong(size, history_frames) == history_frames >= 0 /\ size > history_frames

\* depthHistory after push_front(currentDepthMap) and the one pop_back
PushHistory(hist, currentMap, cfg) ==
    IF HistoryTooLong(Len(hist) + 1, cfg.history_frames)
    THEN SubSeq(<<currentMap>> \o hist, 1, Len(hist))
    ELSE <<currentMap>> \o hist

\* Analyze: the new depthMap and depthHistory
Analyze(pixels, cfg, hist) ==
    With(IF cfg.temporal_smoothing /\ hist # <<>>
         THEN ApplyTemporalSmoothing(RawDepthMap(pixels, cfg), cfg, hist)
         ELSE RawDepthMap(pixels, cfg),
         LAMBDA currentDepthMap :
            [depthMap |-> currentDepthMap,
             depthHistory |-> PushHistory(hist, currentDepthMap, cfg)])

(***************************************************************************)
(* Pixel access.  The buffer holds W * H pixels; a read at a coordinate    *)
(* outside the frame does not return a pixel of the frame.                 *)
(***************************************************************************)
OutsidePixel == <<0, 0, 0, 0>>
PixelAt(pixels, x, y) == IF InFrame(x, y) THEN pixels[Idx(x, y)] ELSE OutsidePixel

\* static_cast<BYTE>(clamp[v, 0.0f, 255.0f]) for a fixed-point channel value v
ToByte[v \in Int] == clamp[v, 0, 255 * FP] \div FP

(***************************************************************************)
(* ApplyDepthBlur                                                          *)
(***************************************************************************)
\* blurRadius of a cell: static_cast<int>(depth * blur_radius), at most 3
BlurRadius(depth, cfg) == MinOf[Trunc[Mul[depth, cfg.blur_radius]], 3]

\* the bounds test of the blur loop for the neighbour (nx, ny)
BlurInBounds(nx, ny) == ~(nx < 0 \/ nx >= W \/ ny < 0 \/ ny >= H)

\* coordinates the blur of cell (x, y) reads from tempBuffer
BlurReads(x, y, r) ==
    {<<x + o[1], y + o[2]>> :
        o \in {q \in (-r..r) \X (-r..r) : BlurInBounds(x + q[1], y + q[2])}}

\* the blurred pixel of an interior cell with blurRadius r > 0 (alpha is kept)
BlurPixel(tempBuffer, x, y, r) ==
    LET Weight(k) ==
            LET o == OffsetAt(r, k)
            IN  IF BlurInBounds(x + o[1], y + o[2])
                THEN GaussWeight(r, o[1] * o[1] + o[2] * o[2]) ELSE 0
        Term(k, ch) ==
            LET o == OffsetAt(r, k)
            IN  IF BlurInBounds(x + o[1], y + o[2])
                THEN tempBuffer[Idx(x + o[1], y + o[2])][ch]
                        * GaussWeight(r, o[1] * o[1] + o[2] * o[2])
                ELSE 0
        totalWeight == SumTo(LAMBDA k : Weight(k), OffsetCount(r))
    IN  << SumTo(LAMBDA k : Term(k, 1), OffsetCount(r)) \div totalWeight,
           SumTo(LAMBDA k : Term(k, 2), OffsetCount(r)) \div totalWeight,
           SumTo(LAMBDA k : Term(k, 3), OffsetCount(r)) \div totalWeight,
           tempBuffer[Idx(x, y)][4] >>

\* ApplyDepthBlur: every read is from the copy made before the loop
ApplyDepthBlur(pixels, depthMap, cfg) ==
    [i \in Cells |->
        IF Interior(i) /\ BlurRadius(depthMap[i], cfg) # 0
        THEN BlurPixel(pixels, XOf(i), YOf(i), BlurRadius(depthMap[i], cfg))
        ELSE pixels[i]]

\* all coordinates ApplyDepthBlur reads
AllBlurReads(depthMap, cfg) ==
    UNION {BlurReads(XOf(i), YOf(i), BlurRadius(depthMap[i], cfg)) :
              i \in {c \in Cells : Interior(c) /\ BlurRadius(depthMap[c], cfg) # 0}}

(***************************************************************************)
(* HSVtoRGB and ApplyIridescence                                           *)
(***************************************************************************)
\* HSVtoRGB: <<r, g, b>> in fixed point
HSVtoRGB(hue, s, v) ==
    IF s = 0 THEN <<v, v, v>>
    ELSE With(Fmod[hue, FP] * 6, LAMBDA h :
         With([i |-> Trunc[h],
               p |-> Mul[v, FP - s],
               q |-> Mul[v, FP - Mul[s, h - Trunc[h] * FP]],
               t |-> Mul[v, FP - Mul[s, FP - (h - Trunc[h] * FP)]]],
              LAMBDA c :
                 CASE c.i = 0 -> <<v, c.t, c.p>>
                   [] c.i = 1 -> <<c.q, v, c.p>>
                   [] c.i = 2 -> <<c.p, v, c.t>>
                   [] c.i = 3 -> <<c.p, c.q, v>>
                   [] c.i = 4 -> <<c.t, c.p, v>>
                   [] OTHER -> <<v, c.p, c.q>>))

\* one channel of the blend: (orig * (1 - blendFactor) + iri * blendFactor) * 255
\* with orig = c / 255, clamped to [0, 255] and cast to BYTE
BlendChannel(c, iri, blendFactor) ==
    ToByte[c * (FP - blendFactor) + Mul[iri * 255, blendFactor]]

\* the hue of the tint at (x, y)
IridescenceHue(x, y, depth, time, cfg) ==
    Mul[Fmod[cfg.hue_offset
             + x * cfg.iridescence_scale
             + Mul[y * cfg.iridescence_scale, 700]
             + Mul[depth, 300]
             + Mul[time, cfg.iridescence_speed], FP],
        cfg.hue_range]

\* ApplyIridescence on the colour <<b, g, r>> of the pixel at (x, y)
ApplyIridescence(x, y, depth, time, bgr, cfg) ==
    With(HSVtoRGB(IridescenceHue(x, y, depth, time, cfg), 900, 900), LAMBDA iri :
    With(Mul[depth, cfg.iridescence_intensity], LAMBDA blendFactor :
        << BlendChannel(bgr[1], iri[3], blendFactor),
           BlendChannel(bgr[2], iri[2], blendFactor),
           BlendChannel(bgr[3], iri[1], blendFactor) >>))

(***************************************************************************)
(* The warp / chromatic / iridescence loop of CreateEnhancedDepthOverlay.  *)
(* It works in place on the buffer the blur wrote, in scan order.          *)
(***************************************************************************)
\* a variant that clamps to the width and height instead of width - 1, height - 1
SamplePositionsToEdge(sx, sy, sep, colorSep) ==
    [ srcX |-> clamp[sx, 0, W],
      srcY |-> clamp[sy, 0, H],
      redX |-> clamp[clamp[sx, 0, W] + sep, 0, W],
      blueX |-> clamp[clamp[sx, 0, W] - sep, 0, W],
      colorSep |-> colorSep ]

\* srcX, srcY, redX, blueX from the unclamped source (sx, sy) and the
\* colour separation in pixels: the three clamp calls on x and the one on y
SamplePositions(sx, sy, sep, colorSep) ==
    [ srcX |-> clamp[sx, 0, W - 1],
      srcY |-> clamp[sy, 0, H - 1],
      redX |-> clamp[clamp[sx, 0, W - 1] + sep, 0, W - 1],
      blueX |-> clamp[clamp[sx, 0, W - 1] - sep, 0, W - 1],
      colorSep |-> colorSep ]

\* the sample positions of output pixel (x, y).  With depth = 0 every product
\* below is 0 and the positions are (x, y) itself; the first branch only
\* spares their evaluation.
WarpSource(x, y, depth, time, cfg) ==
    IF depth = 0
    THEN SamplePositions(x, y, 0, 0)
    ELSE
    LET perspective == FP - Mul[(y * FP) \div H, cfg.perspective_strength]
        shiftX(wave) == Mul[Mul[Mul[cfg.base_shift, depth], perspective] + wave,
                            Sin[cfg.phase]]
        shiftY(wave) == Mul[Mul[Mul[cfg.vertical_shift, depth], perspective]
                                + Mul[wave, 700],
                            Cos[cfg.phase]]
        focusEffect == IF Abs[depth - cfg.focus_distance] > cfg.focus_range
                       THEN 600 ELSE FP
        colorSep == Mul[depth, cfg.color_intensity]
    IN  With(Mul[Mul[Mul[Sin[x * cfg.wave_frequency + time],
                         Cos[Mul[y * cfg.wave_frequency, 700] + Mul[time, 800]]],
                     cfg.wave_amplitude], depth],
             LAMBDA wave :
                SamplePositions(x + Trunc[Mul[shiftX(wave), focusEffect]],
                                y + Trunc[Mul[shiftY(wave), focusEffect]],
                                Trunc[Mul[colorSep, 3 * FP]],
                                colorSep))

\* the coordinates the loop body reads for sample positions s
WarpReads(s) == {<<s.srcX, s.srcY>>, <<s.redX, s.srcY>>, <<s.blueX, s.srcY>>}

\* the bytes the loop body reads at s: pixels[blueOffset + 0],
\* pixels[srcOffset + 1], pixels[redOffset + 2]
SampledValues(pixels, s) ==
    << PixelAt(pixels, s.blueX, s.srcY)[1],
       PixelAt(pixels, s.srcX, s.srcY)[2],
       PixelAt(pixels, s.redX, s.srcY)[3] >>

\* the colour <<b, g, r>> the chromatic aberration writes, sampled at s
ChromaticPixel(pixels, s) ==
    << ToByte[SampledValues(pixels, s)[1] * (FP + Mul[s.colorSep, 300])],
       SampledValues(pixels, s)[2],
       ToByte[SampledValues(pixels, s)[3] * (FP + Mul[s.colorSep, 500])] >>

\* pixels[offset + 3]: static_cast<BYTE>(alpha * (0.3f + depth * 0.7f))
DepthAlpha(depth, cfg) == (cfg.alpha * (300 + Mul[depth, 700])) \div FP

\* the body of the loop for output pixel i sampled at s: the pixel it leaves at i
WarpPixel(pixels, s, i, depth, time, cfg) ==
    With(IF cfg.enable_iridescence
         THEN ApplyIridescence(XOf(i), YOf(i), depth, time,
                               ChromaticPixel(pixels, s), cfg)
         ELSE ChromaticPixel(pixels, s),
         LAMBDA colour :
            <<colour[1], colour[2], colour[3], DepthAlpha(depth, cfg)>>)

\* one iteration of the loop, for output pixel i.  st.pixels is the buffer
\* the loop works on, st.reads the coordinates read so far, st.dirty the
\* output pixels one of whose sampled bytes was not the byte the blur stage
\* had left there (blurred is the buffer as it was before the loop).
WarpStep(st, i, blurred, depthMap, time, cfg) ==
    With(WarpSource(XOf(i), YOf(i), depthMap[i], time, cfg), LAMBDA s :
        [ pixels |-> [st.pixels EXCEPT
                        ![i] = WarpPixel(st.pixels, s, i, depthMap[i], time, cfg)],
          reads |-> st.reads \cup WarpReads(s),
          dirty |-> IF SampledValues(st.pixels, s) = SampledValues(blurred, s)
                    THEN st.dirty ELSE st.dirty \cup {i} ])

\* the inner loop, for (x = 0; x < SCREEN_WIDTH; x++), on row y: cols[x] is
\* the state of the loop before output pixel (x, y)
WarpRow(st, y, blurred, depthMap, time, cfg) ==
    LET cols[x \in 0..W] ==
            IF x = 0
            THEN st
            ELSE With(cols[x - 1],
                      LAMBDA c : WarpStep(c, Idx(x - 1, y), blurred, depthMap, time, cfg))
    IN  cols[W]

\* the whole loop on the blurred buffer, in scan order: rows[y] is the state
\* of the loop before row y
Warp(pixels, depthMap, time, cfg) ==
    LET rows[y \in 0..H] ==
            IF y = 0
            THEN [pixels |-> pixels, reads |-> {}, dirty |-> {}]
            ELSE With(rows[y - 1],
                      LAMBDA st : WarpRow(st, y - 1, pixels, depthMap, time, cfg))
    IN  rows[H]

(***************************************************************************)
(* WindowProc, WM_KEYDOWN: the effect of one key on dcfg.                  *)
(***************************************************************************)
Keys == { "VK_UP", "VK_DOWN", "VK_RIGHT", "VK_LEFT", "W", "S", "A", "D", "Q", "E",
          "Z", "X", "C", "V", "I", "U", "Y", "H", "J", "N", "M", "K", "L",
          "VK_OEM_COMMA", "VK_OEM_PERIOD", "O", "1", "2", "3", "4", "VK_ESCAPE" }

Times11(v) == Mul[v, 1100]     \* v *= 1.1f
Times09(v) == Mul[v, 900]      \* v *= 0.9f

KeyEffect(cfg, key) ==
    CASE key = "VK_UP"    -> [cfg EXCEPT !.base_shift = Times11(@)]
      [] key = "VK_DOWN"  -> [cfg EXCEPT !.base_shift = Times09(@)]
      [] key = "VK_RIGHT" -> [cfg EXCEPT !.phase_speed = Times11(@)]
      [] key = "VK_LEFT"  -> [cfg EXCEPT !.phase_speed = Times09(@)]
      [] key = "W" -> [cfg EXCEPT !.vertical_shift = Times11(@)]
      [] key = "S" -> [cfg EXCEPT !.vertical_shift = Times09(@)]
      [] key = "A" -> [cfg EXCEPT !.color_intensity = Times09(@)]
      [] key = "D" -> [cfg EXCEPT !.color_intensity = Times11(@)]
      [] key = "Q" -> [cfg EXCEPT !.wave_amplitude = Times11(@)]
      [] key = "E" -> [cfg EXCEPT !.wave_amplitude = Times09(@)]
      [] key = "Z" -> [cfg EXCEPT !.focus_distance = MaxOf[0, @ - 50]]
      [] key = "X" -> [cfg EXCEPT !.focus_distance = MinOf[FP, @ + 50]]
      [] key = "C" -> [cfg EXCEPT !.focus_range = Times09(@)]
      [] key = "V" -> [cfg EXCEPT !.focus_range = Times11(@)]
      [] key = "I" -> [cfg EXCEPT !.enable_iridescence = ~@]
      [] key = "U" -> [cfg EXCEPT !.iridescence_intensity = MaxOf[0, @ - 50]]
      [] key = "Y" -> [cfg EXCEPT !.iridescence_intensity = MinOf[FP, @ + 50]]
      [] key = "H" -> [cfg EXCEPT !.hue_range = MaxOf[100, @ - 100]]
      [] key = "J" -> [cfg EXCEPT !.hue_range = MinOf[2 * FP, @ + 100]]
      [] key = "N" -> [cfg EXCEPT !.iridescence_scale = Times09(@)]
      [] key = "M" -> [cfg EXCEPT !.iridescence_scale = Times11(@)]
      [] key = "K" -> [cfg EXCEPT !.iridescence_speed = Times09(@)]
      [] key = "L" -> [cfg EXCEPT !.iridescence_speed = Times11(@)]
      [] key = "VK_OEM_COMMA"  -> [cfg EXCEPT !.hue_offset = Fmod[@ - 100, FP]]
      [] key = "VK_OEM_PERIOD" -> [cfg EXCEPT !.hue_offset = Fmod[@ + 100, FP]]
      [] OTHER -> cfg          \* 'O', the preset stubs '1'..'4', VK_ESCAPE

(***************************************************************************)
(* State.                                                                  *)
(***************************************************************************)
VARIABLES
    dcfg,             \* the global DepthIllusionConfig
    g_configMutex,    \* "free", or the thread holding it: "render" or "ui"
    g_showSettings,   \* bool g_showSettings
    quitPosted,       \* PostQuitMessage has been called
    uiPc,             \* UI thread (WinMain message loop and WindowProc)
    key,              \* wParam of the WM_KEYDOWN being handled
    renderPc,         \* render worker (RenderThreadFunc)
    pixels,           \* the DIB section's pixel buffer (pBits)
    depthMap,         \* depthGen.depthMap; <<>> before the first Analyze
    depthHistory,     \* depthGen.depthHistory, most recent first
    sinceLast,        \* steady_clock::now() - lastFrameTime, in ms
    elapsed,          \* the loop's sample of it
    keysLeft,         \* WM_KEYDOWN messages still to come
    framesLeft,       \* frames still to be produced
    cfgAtFrameStart,  \* history: dcfg when the frame's lock was taken
    lockCount,        \* history: mutex acquisitions in this loop iteration
    reads,            \* history: coordinates the last stage read
    dirty,            \* history: output pixels whose warp sampled a changed byte
    sinceStart,       \* history: ms on the clock since the sample of `now` that
                      \* started the last frame (since lastFrameTime's
                      \* initialisation before the first frame)
    frameGap,         \* history: sinceStart at the sample that started the frame
    lastCost,         \* history: ms from the last frame's sample to its end
    twin,             \* a second run of the program on the same inputs
    env               \* the host: desktop, keyboard and timing of this run

vars == << dcfg, g_configMutex, g_showSettings, quitPosted, uiPc, key, renderPc,
           pixels, depthMap, depthHistory, sinceLast, elapsed, keysLeft,
           framesLeft, cfgAtFrameStart, lockCount, reads, dirty, sinceStart,
           frameGap, lastCost, twin, env >>

uiVars == << g_showSettings, quitPosted, uiPc, key, keysLeft >>
frameVars == << pixels, depthMap, depthHistory, reads, dirty >>
clockVars == << sinceLast, elapsed, sinceStart, frameGap, lastCost >>

\* The host of a run: what the desktop can show when it is captured, the
\* keys the user can press, how long sleep_for(1 ms) can take (the timer
\* granularity) and how long after the sample of `now` a frame can end.
UiHost ==
    [ desktop  |-> {Gray(128)},
      keyboard |-> Keys,
      sleeps   |-> {FRAME_DELAY \div 2, FRAME_DELAY},
      costs    |-> {1} ]

\* the configuration at start-up with history_frames (60 in the source)
\* scaled down to h, so that a run of MaxFrames frames fills the history
ScaledConfig(h, smoothing) ==
    [DefaultConfig EXCEPT !.history_frames = h, !.temporal_smoothing = smoothing]

\* The second run: the same program started with the configuration cfg,
\* given the same captures, the same keys and the same schedule.
NoTwin == [on |-> FALSE]
TwinOf(cfg) ==
    [on |-> TRUE, dcfg |-> cfg, pixels |-> Gray(0), depthMap |-> <<>>,
     depthHistory |-> <<>>]

InitWith(configs, hosts, keys, frames) ==
    /\ dcfg \in configs
    /\ env \in hosts
    /\ g_configMutex = "free"
    /\ g_showSettings = FALSE
    /\ quitPosted = FALSE
    /\ uiPc = "GetMessage"
    /\ key = "none"
    /\ renderPc = "poll"
    /\ pixels = Gray(0)
    /\ depthMap = <<>>
    /\ depthHistory = <<>>
    /\ sinceLast = 0
    /\ elapsed = 0
    /\ keysLeft = keys
    /\ framesLeft = frames
    /\ cfgAtFrameStart = dcfg
    /\ lockCount = 0
    /\ reads = {}
    /\ dirty = {}
    /\ sinceStart = 0
    /\ frameGap = 0
    /\ lastCost = 0

Init ==
    /\ InitWith({ScaledConfig(MaxHistoryFrames, TRUE)}, {UiHost}, MaxKeys, MaxFrames)
    /\ twin = NoTwin

\* the process is alive until WinMain returns
Running == uiPc # "exited"

(***************************************************************************)
(* The second run's pipeline stages (the same functions, on its own state) *)
(***************************************************************************)
TwinAnalyze(t, screen) ==
    IF ~t.on THEN t
    ELSE With(Analyze(screen, t.dcfg, t.depthHistory), LAMBDA a :
            [t EXCEPT !.pixels = screen, !.depthMap = a.depthMap,
                      !.depthHistory = a.depthHistory])

TwinBlur(t) ==
    IF ~t.on THEN t
    ELSE [t EXCEPT !.pixels = ApplyDepthBlur(t.pixels, t.depthMap, t.dcfg)]

TwinWarp(t) ==
    IF ~t.on THEN t
    ELSE [t EXCEPT !.pixels = Warp(t.pixels, t.depthMap, t.dcfg.phase, t.dcfg).pixels]

TwinReturn(t) ==
    IF ~t.on THEN t
    ELSE [t EXCEPT !.dcfg = [@ EXCEPT !.phase = @ + t.dcfg.phase_speed]]

TwinKey(t, k) ==
    IF ~t.on THEN t ELSE [t EXCEPT !.dcfg = KeyEffect(@, k)]

(***************************************************************************)
(* RenderThreadFunc                                                        *)
(***************************************************************************)
\* top of the loop: sample now, compute elapsed, test elapsed >= FRAME_DELAY
RenderPoll ==
    /\ Running /\ renderPc = "poll"
    /\ sinceLast >= FRAME_DELAY => framesLeft > 0
    /\ elapsed' = sinceLast
    /\ renderPc' = IF sinceLast >= FRAME_DELAY THEN "lock" ELSE "sleep"
    /\ lockCount' = 0
    /\ frameGap' = IF sinceLast >= FRAME_DELAY THEN sinceStart ELSE frameGap
    /\ sinceStart' = IF sinceLast >= FRAME_DELAY THEN 0 ELSE sinceStart
    /\ UNCHANGED << dcfg, g_configMutex, uiVars, frameVars, sinceLast, framesLeft,
                    cfgAtFrameStart, lastCost, twin, env >>

\* std::lock_guard<std::mutex> lock(g_configMutex)
RenderLock ==
    /\ Running /\ renderPc = "lock"
    /\ g_configMutex = "free"
    /\ g_configMutex' = "render"
    /\ lockCount' = lockCount + 1
    /\ cfgAtFrameStart' = dcfg
    /\ renderPc' = "analyze"
    /\ UNCHANGED << dcfg, uiVars, frameVars, clockVars, framesLeft, twin, env >>

\* CreateEnhancedDepthOverlay up to depthGen.Analyze: capture, then Analyze
RenderAnalyze ==
    /\ Running /\ renderPc = "analyze"
    /\ \E screen \in env.desktop :
          \E a \in {Analyze(screen, dcfg, depthHistory)} :
              /\ pixels' = screen
              /\ depthMap' = a.depthMap
              /\ depthHistory' = a.depthHistory
              /\ twin' = TwinAnalyze(twin, screen)
    /\ reads' = UNION {EdgeReads(XOf(i), YOf(i)) : i \in EstimatedCells}
    /\ renderPc' = "blur"
    /\ UNCHANGED << dcfg, g_configMutex, uiVars, clockVars, framesLeft,
                    cfgAtFrameStart, lockCount, dirty, env >>

\* ApplyDepthBlur(pixels, ..., depthGen.depthMap)
RenderBlur ==
    /\ Running /\ renderPc = "blur"
    /\ pixels' = ApplyDepthBlur(pixels, depthMap, dcfg)
    /\ reads' = AllBlurReads(depthMap, dcfg)
    /\ twin' = TwinBlur(twin)
    /\ renderPc' = "warp"
    /\ UNCHANGED << dcfg, g_configMutex, uiVars, depthMap, depthHistory, clockVars,
                    framesLeft, cfgAtFrameStart, lockCount, dirty, env >>

\* a variant whose loop advances the phase as well
RenderWarpAdvancesPhase ==
    /\ Running /\ renderPc = "warp"
    /\ \E w \in {Warp(pixels, depthMap, dcfg.phase, dcfg)} :
           /\ pixels' = w.pixels
           /\ dirty' = w.dirty
           /\ reads' = w.reads
    /\ dcfg' = [dcfg EXCEPT !.phase = @ + dcfg.phase_speed]
    /\ twin' = TwinWarp(twin)
    /\ renderPc' = "return"
    /\ UNCHANGED << g_configMutex, uiVars, depthMap, depthHistory, clockVars,
                    framesLeft, cfgAtFrameStart, lockCount, env >>

\* the warp / chromatic / iridescence / alpha loop
RenderWarp ==
    /\ Running /\ renderPc = "warp"
    /\ \E w \in {Warp(pixels, depthMap, dcfg.phase, dcfg)} :
           /\ pixels' = w.pixels
           /\ dirty' = w.dirty
           /\ reads' = w.reads
    /\ twin' = TwinWarp(twin)
    /\ renderPc' = "return"
    /\ UNCHANGED << dcfg, g_configMutex, uiVars, depthMap, depthHistory, clockVars,
                    framesLeft, cfgAtFrameStart, lockCount, env >>

\* a variant that returns without the lock_guard's scope ending
RenderReturnKeepsLock ==
    /\ Running /\ renderPc = "return"
    /\ dcfg' = [dcfg EXCEPT !.phase = @ + dcfg.phase_speed]
    /\ twin' = TwinReturn(twin)
    /\ renderPc' = "present"
    /\ UNCHANGED << g_configMutex, uiVars, frameVars, clockVars, framesLeft,
                    cfgAtFrameStart, lockCount, env >>

\* dcfg.phase += dcfg.phase_speed; return; the lock_guard's scope ends
RenderReturn ==
    /\ Running /\ renderPc = "return"
    /\ dcfg' = [dcfg EXCEPT !.phase = @ + dcfg.phase_speed]
    /\ twin' = TwinReturn(twin)
    /\ g_configMutex' = "free"
    /\ renderPc' = "present"
    /\ UNCHANGED << uiVars, frameVars, clockVars, framesLeft, cfgAtFrameStart,
                    lockCount, env >>

\* a variant that catches up: lastFrameTime += FRAME_DELAY
RenderPresentCatchUp ==
    /\ Running /\ renderPc = "present"
    /\ \E cost \in env.costs :
          /\ sinceLast' = cost + (elapsed - FRAME_DELAY)
          /\ sinceStart' = sinceStart + cost
          /\ lastCost' = cost
    /\ framesLeft' = framesLeft - 1
    /\ renderPc' = "sleep"
    /\ UNCHANGED << dcfg, g_configMutex, uiVars, frameVars, elapsed, frameGap,
                    cfgAtFrameStart, lockCount, twin, env >>

\* UpdateLayeredWindow; lastFrameTime = now
RenderPresent ==
    /\ Running /\ renderPc = "present"
    /\ \E cost \in env.costs :
          /\ sinceLast' = cost
          /\ sinceStart' = sinceStart + cost
          /\ lastCost' = cost
    /\ framesLeft' = framesLeft - 1
    /\ renderPc' = "sleep"
    /\ UNCHANGED << dcfg, g_configMutex, uiVars, frameVars, elapsed, frameGap,
                    cfgAtFrameStart, lockCount, twin, env >>

\* std::this_thread::sleep_for(1 ms)
RenderSleep ==
    /\ Running /\ renderPc = "sleep"
    /\ \E d \in env.sleeps :
          /\ sinceLast' = sinceLast + d
          /\ sinceStart' = sinceStart + d
    /\ renderPc' = "poll"
    /\ UNCHANGED << dcfg, g_configMutex, uiVars, frameVars, elapsed, framesLeft,
                    frameGap, lastCost, cfgAtFrameStart, lockCount, twin, env >>

(***************************************************************************)
(* WinMain's message loop and WindowProc                                   *)
(***************************************************************************)
\* GetMessage returns a WM_KEYDOWN; DispatchMessage enters WindowProc
UiKeyDown ==
    /\ uiPc = "GetMessage" /\ keysLeft > 0
    /\ \E k \in env.keyboard : key' = k
    /\ keysLeft' = keysLeft - 1
    /\ uiPc' = "lock"
    /\ UNCHANGED << dcfg, g_configMutex, g_showSettings, quitPosted, renderPc,
                    frameVars, clockVars, framesLeft, cfgAtFrameStart, lockCount,
                    twin, env >>

\* a variant of the handler that does not wait for the mutex
UiLockNoWait ==
    /\ uiPc = "lock"
    /\ g_configMutex' = "ui"
    /\ uiPc' = "switch"
    /\ UNCHANGED << dcfg, g_showSettings, quitPosted, key, keysLeft, renderPc,
                    frameVars, clockVars, framesLeft, cfgAtFrameStart, lockCount,
                    twin, env >>

\* case WM_KEYDOWN: std::lock_guard<std::mutex> lock(g_configMutex)
UiLock ==
    /\ uiPc = "lock"
    /\ g_configMutex = "free"
    /\ g_configMutex' = "ui"
    /\ uiPc' = "switch"
    /\ UNCHANGED << dcfg, g_showSettings, quitPosted, key, keysLeft, renderPc,
                    frameVars, clockVars, framesLeft, cfgAtFrameStart, lockCount,
                    twin, env >>

\* switch (wParam) ... ; the lock_guard's scope ends; return 0
UiSwitch ==
    /\ uiPc = "switch"
    /\ dcfg' = KeyEffect(dcfg, key)
    /\ twin' = TwinKey(twin, key)
    /\ g_showSettings' = IF key = "O" THEN ~g_showSettings ELSE g_showSettings
    /\ quitPosted' = (quitPosted \/ key = "VK_ESCAPE")
    /\ g_configMutex' = "free"
    /\ key' = "none"
    /\ uiPc' = "GetMessage"
    /\ UNCHANGED << keysLeft, renderPc, frameVars, clockVars, framesLeft,
                    cfgAtFrameStart, lockCount, env >>

\* case WM_DESTROY: PostQuitMessage(0)
UiDestroy ==
    /\ uiPc = "GetMessage" /\ ~quitPosted
    /\ quitPosted' = TRUE
    /\ UNCHANGED << dcfg, g_configMutex, g_showSettings, uiPc, key, keysLeft,
                    renderPc, frameVars, clockVars, framesLeft, cfgAtFrameStart,
                    lockCount, twin, env >>

\* GetMessage returns 0 on WM_QUIT: cleanup, WinMain returns, the process and
\* with it the detached render thread end
UiExit ==
    /\ uiPc = "GetMessage" /\ quitPosted
    /\ uiPc' = "exited"
    /\ UNCHANGED << dcfg, g_configMutex, g_showSettings, quitPosted, key, keysLeft,
                    renderPc, frameVars, clockVars, framesLeft, cfgAtFrameStart,
                    lockCount, twin, env >>

Next ==
    \/ RenderPoll \/ RenderLock \/ RenderAnalyze \/ RenderBlur \/ RenderWarp
    \/ RenderReturn \/ RenderPresent \/ RenderSleep
    \/ UiKeyDown \/ UiLock \/ UiSwitch \/ UiDestroy \/ UiExit

Spec == Init /\ [][Next]_vars

(***************************************************************************)
(* Further start-ups and hosts.  Every specification runs the same         *)
(* program (Next); they differ in the configuration the run starts from    *)
(* and in what the host shows and types.                                   *)
(***************************************************************************)
\* every key, one screen, every history_frames up to MaxHistoryFrames
HistoryHost ==
    [ desktop  |-> {Gray(128)},
      keyboard |-> Keys,
      sleeps   |-> {FRAME_DELAY},
      costs    |-> {1} ]

HistoryInit ==
    /\ InitWith({ScaledConfig(h, sm) : h \in 0..MaxHistoryFrames, sm \in BOOLEAN},
                {HistoryHost}, MaxKeys, MaxFrames)
    /\ twin = NoTwin

HistorySpec == HistoryInit /\ [][Next]_vars

\* the keys that change what Analyze reads (focus_distance, focus_range),
\* every screen, smoothing on and off
DepthHost ==
    [ desktop  |-> Screens,
      keyboard |-> {"Z", "X", "C", "V"},
      sleeps   |-> {FRAME_DELAY},
      costs    |-> {1} ]

DepthInit ==
    /\ InitWith({ScaledConfig(h, sm) : h \in 0..MaxHistoryFrames, sm \in BOOLEAN},
                {DepthHost}, MaxKeys, MaxFrames)
    /\ twin = NoTwin

DepthSpec == DepthInit /\ [][Next]_vars

\* start-ups after some frames and key presses: phases (multiples of
\* phase_speed) whose sine is 0, small, 1, negative and -1, and
\* color_intensity as it is and after two presses of 'D'
StartPhases == {0, 100, 1600, 3400, 4700}

FrameHost ==
    [ desktop  |-> {Gray(128), EdgeScreen},
      keyboard |-> {"VK_UP", "Q", "D"},
      sleeps   |-> {FRAME_DELAY},
      costs    |-> {1} ]

FrameInit ==
    /\ InitWith({[ScaledConfig(MaxHistoryFrames, TRUE)
                    EXCEPT !.phase = p, !.color_intensity = c] :
                        p \in StartPhases, c \in {300, Times11(Times11(300))}},
                {FrameHost}, MaxKeys, MaxFrames)
    /\ twin = NoTwin

FrameSpec == FrameInit /\ [][Next]_vars

\* two runs side by side: the second starts with iridescence off, or with
\* another phase and phase_speed
TwinHost ==
    [ desktop  |-> {Gray(128), EdgeScreen},
      keyboard |-> {"VK_RIGHT", "U", "Z"},
      sleeps   |-> {FRAME_DELAY},
      costs    |-> {1} ]

TwinInit ==
    /\ InitWith({ScaledConfig(MaxHistoryFrames, TRUE)}, {TwinHost}, MaxKeys, MaxFrames)
    /\ twin \in {TwinOf([dcfg EXCEPT !.enable_iridescence = FALSE])}
                \cup {TwinOf([dcfg EXCEPT !.phase = pv[1], !.phase_speed = pv[2]]) :
                         pv \in {<<1600, 100>>, <<0, 700>>}}

TwinSpec == TwinInit /\ [][Next]_vars

RECURSIVE Pressed(_, _, _)
\* the configuration after n presses of the key k
Pressed(cfg, k, n) == IF n = 0 THEN cfg ELSE Pressed(KeyEffect(cfg, k), k, n - 1)

RECURSIVE PressesUntil(_, _, _)
\* how many presses of 'C' take focus_range from v down to at most `low`
PressesUntil(v, low, n) ==
    IF v <= low THEN n ELSE PressesUntil(Times09(v), low, n + 1)

\* start-ups after the user has held 'C' (decrease focus range): the
\* start-up configuration, and the configurations in which focus_range has
\* come down to two units and to one unit of the fixed-point resolution
FocusHost ==
    [ desktop  |-> {Gray(128), EdgeScreen},
      keyboard |-> {"C", "V", "X"},
      sleeps   |-> {FRAME_DELAY},
      costs    |-> {1} ]

FocusInit ==
    /\ InitWith({ScaledConfig(MaxHistoryFrames, sm) : sm \in BOOLEAN}
                    \cup {Pressed(ScaledConfig(MaxHistoryFrames, TRUE), "C",
                                  PressesUntil(DefaultConfig.focus_range, low, 0)) :
                              low \in 1..2},
                {FocusHost}, MaxKeys, MaxFrames)
    /\ twin = NoTwin

FocusSpec == FocusInit /\ [][Next]_vars

\* a still desktop: one screen, captured again every frame; start-ups with
\* every history_frames up to MaxHistoryFrames, also after three presses of
\* 'C', where a white screen has a raw depth strictly between 0 and 1
StillHosts ==
    { [ desktop  |-> {screen},
        keyboard |-> {"C", "I"},
        sleeps   |-> {FRAME_DELAY},
        costs    |-> {1} ] : screen \in {Gray(255), Gray(128), EdgeScreen} }

StillInit ==
    /\ InitWith({Pressed(ScaledConfig(h, TRUE), "C", n) :
                    h \in 0..MaxHistoryFrames, n \in {0, 3}},
                StillHosts, MaxKeys, MaxFrames)
    /\ twin = NoTwin

StillSpec == StillInit /\ [][Next]_vars

\* a host on which a frame can take longer than FRAME_DELAY and on which
\* sleep_for returns after half a frame period or a whole one
TimingHost ==
    [ desktop  |-> {Gray(128)},
      keyboard |-> {"VK_RIGHT", "VK_ESCAPE"},
      sleeps   |-> {FRAME_DELAY \div 2, FRAME_DELAY},
      costs    |-> {1, FRAME_DELAY + 4} ]

TimingInit ==
    /\ InitWith({ScaledConfig(MaxHistoryFrames, TRUE)}, {TimingHost}, MaxKeys, MaxFrames)
    /\ twin = NoTwin

TimingSpec == TimingInit /\ [][Next]_vars

(***************************************************************************)
(* Properties.                                                             *)
(***************************************************************************)
\* the worker is inside CreateEnhancedDepthOverlay
InPipeline == renderPc \in {"analyze", "blur", "warp", "return"}

\* C1: after every completed Analyze call, whatever frames and key events
\* came before, depthHistory holds at most history_frames depth maps (none
\* when history_frames = 0).
C1_HistoryBounded == Len(depthHistory) <= dcfg.history_frames

\* a run that has produced more frames than the history can hold
C1_HistoryFull ==
    /\ framesLeft = 0
    /\ dcfg.history_frames = MaxHistoryFrames
    /\ Len(depthHistory) = MaxHistoryFrames
    /\ keysLeft = 0

\* C2: while a frame's pipeline runs (from the start of Analyze to the last
\* pixel write) the configuration is the one that held when the frame
\* started: no key event changes it mid-frame.
C2_NoMidFrameMutation == InPipeline => dcfg = cfgAtFrameStart

\* a key event has arrived while the blur of a frame is about to run
C2_KeyDuringFrame == renderPc = "blur" /\ uiPc = "lock" /\ key = "VK_UP"

\* C3 (as the code has it): in every frame the render worker acquires the
\* config mutex exactly once and holds it while the whole pipeline runs; it
\* has released it when the frame is presented.
C3_LockHeldThroughPipeline ==
    /\ InPipeline => (g_configMutex = "render" /\ lockCount = 1)
    /\ renderPc = "present" => (g_configMutex # "render" /\ lockCount = 1)

\* the input handler waits for the mutex while the warp of a frame runs
C3_HandlerBlocked ==
    renderPc = "warp" /\ g_configMutex = "render" /\ uiPc = "lock"

\* C3 (as claimed): the worker acquires the mutex once per frame and has
\* released it when the pipeline runs, so the input handler never waits for
\* the mutex during the pipeline.
C3_ReleasedBeforePipeline ==
    InPipeline => (g_configMutex # "render" /\ lockCount = 1)

\* C4: after the termination signal the worker finishes its frame and leaves
\* its loop: when the process ends, the worker is not in the middle of a
\* frame.
C4_CooperativeShutdown == uiPc = "exited" => renderPc \in {"poll", "sleep"}

\* C5: every byte the warp / chromatic stage samples is the byte the blur
\* stage produced, never one the warp or iridescence stage of the same frame
\* has written.
C5_WarpReadsBlurStage == dirty = {}

\* C6: every coordinate a stage reads a pixel at (edge kernels, blur
\* neighbourhood, warp source / red / blue positions) is in
\* [0, W-1] x [0, H-1].
C6_ReadsInBounds == reads \subseteq (0..(W - 1)) \X (0..(H - 1))

\* a warp whose shift left the frame: an interior pixel of depth > 0 sampled
\* at column 0 from three columns away
C6_ShiftClamped ==
    /\ renderPc = "return"
    /\ \E i \in EstimatedCells :
          /\ XOf(i) = 3 /\ depthMap[i] > 0
          /\ WarpSource(XOf(i), YOf(i), depthMap[i], dcfg.phase, dcfg).srcX = 0
          /\ <<0, YOf(i)>> \in reads

\* C7: after every Analyze call, with smoothing on or off, every cell of
\* depthMap and of every map in depthHistory is in [0, 1].
C7_DepthInUnitRange ==
    /\ \A i \in DOMAIN depthMap : depthMap[i] >= 0 /\ depthMap[i] <= FP
    /\ \A f \in DOMAIN depthHistory :
          \A i \in DOMAIN depthHistory[f] :
              depthHistory[f][i] >= 0 /\ depthHistory[f][i] <= FP

\* a smoothed map with a cell strictly inside (0, 1) over a history that
\* holds a clamped cell
C7_SmoothedCell ==
    /\ dcfg.temporal_smoothing /\ Len(depthHistory) >= 2
    /\ \E i \in DOMAIN depthMap : depthMap[i] > 0 /\ depthMap[i] < FP
    /\ \E i \in DOMAIN depthMap : depthHistory[2][i] = FP

\* C8: after every Analyze call, also after smoothing over the history,
\* every depthMap cell within 2 pixels of the frame's edge is 0.
C8_BorderZero ==
    \A i \in DOMAIN depthMap :
        (XOf(i) < 2 \/ XOf(i) >= W - 2 \/ YOf(i) < 2 \/ YOf(i) >= H - 2)
            => depthMap[i] = 0

\* a smoothed map over a full history whose inner cells are not 0
C8_SmoothedInterior ==
    /\ dcfg.temporal_smoothing /\ Len(depthHistory) = MaxHistoryFrames
    /\ renderPc = "blur"
    /\ \E i \in DOMAIN depthMap : depthMap[i] > 0

\* C9: for the same input, depth map, phase and configuration, the frame
\* rendered with iridescence on has the alpha of the frame rendered with it
\* off at every pixel, and its colour is the iridescence blend of the
\* colour of that frame at the same pixel.
C9_IridescenceOnlyBlends ==
    (/\ twin.on /\ renderPc = "return"
     /\ dcfg.enable_iridescence
     /\ twin.dcfg = [dcfg EXCEPT !.enable_iridescence = FALSE])
    => \A i \in Cells :
          /\ pixels[i][4] = twin.pixels[i][4]
          /\ <<pixels[i][1], pixels[i][2], pixels[i][3]>>
                = ApplyIridescence(XOf(i), YOf(i), depthMap[i], dcfg.phase,
                                   <<twin.pixels[i][1], twin.pixels[i][2],
                                     twin.pixels[i][3]>>, dcfg)

\* the two configurations agree except for phase and phase_speed
SameButPhase(c, d) == [c EXCEPT !.phase = d.phase, !.phase_speed = d.phase_speed] = d

\* C10: two runs with the same history, the same input frames and the same
\* configuration except for phase and phase_speed have the same depth map
\* and the same history after every frame.
C10_DepthIgnoresPhase ==
    (twin.on /\ SameButPhase(twin.dcfg, dcfg))
    => (twin.depthMap = depthMap /\ twin.depthHistory = depthHistory)

\* two runs at different phases after two frames, with depth in the map
C10_TwoPhases ==
    /\ twin.on /\ SameButPhase(twin.dcfg, dcfg)
    /\ twin.dcfg.phase # dcfg.phase
    /\ Len(depthHistory) >= 2 /\ renderPc = "blur"
    /\ \E i \in DOMAIN depthMap : depthMap[i] > 0

\* C11: the focus_range a frame divides by is never below a positive
\* minimum, however often 'C' (focus_range *= 0.9) has been pressed.  The
\* smallest positive value of the fixed-point resolution stands for the
\* minimum: a focus_range of 0 stands for a float below every such minimum.
C11_FocusRangeFloored == InPipeline => dcfg.focus_range > 0

\* the run so far has captured one and the same screen under a configuration
\* no key has changed, with smoothing on, and has analysed a frame
StillRun ==
    /\ Cardinality(env.desktop) = 1
    /\ keysLeft = MaxKeys /\ key = "none"
    /\ dcfg.temporal_smoothing
    /\ depthMap # <<>>

\* the first frame's depth map of such a run: the raw map (the history is empty)
FirstDepthMap == RawDepthMap(CHOOSE screen \in env.desktop : TRUE, dcfg)

\* the rounding of one smoothing pass: one unit for each product of the
\* history loop and the quotient's
SmoothingTolerance(cfg) == cfg.history_frames + 2

\* C12 (as the code has it): on a still desktop under an unchanged
\* configuration with smoothing on, every frame's depth map stays within
\* the rounding tolerance of the first frame's at every cell, for every
\* history length, and cells that are 0 or 1 in the first frame keep
\* exactly that value.
C12_SmoothingWithinTolerance ==
    StillRun =>
        \A i \in Cells :
            /\ Abs[depthMap[i] - FirstDepthMap[i]] <= SmoothingTolerance(dcfg)
            /\ FirstDepthMap[i] \in {0, FP} => depthMap[i] = FirstDepthMap[i]

\* the last frame of a run, smoothed over a history of two or more maps,
\* whose cells are not all those of the first frame
C12_RoundedCell ==
    /\ StillRun /\ framesLeft = 1 /\ renderPc = "blur"
    /\ Len(depthHistory) >= 2
    /\ \E i \in Cells : depthMap[i] # FirstDepthMap[i]

\* C12 (as claimed): on a still desktop under an unchanged configuration
\* with smoothing on, every frame's depth map equals the first frame's.
C12_SmoothingFixedPoint == StillRun => depthMap = FirstDepthMap

\* the worker is producing a frame: from the sample that started it to its
\* presentation
InFrameIteration == renderPc \in {"lock", "analyze", "blur", "warp", "return", "present"}

\* the last frame ended after its deadline: it took FRAME_DELAY or longer
Overran == lastCost >= FRAME_DELAY

\* C13: the samples of the clock that start two consecutive frames are at
\* least FRAME_DELAY ms apart (the first frame's is as far from the start
\* of the loop), an iteration produces at most one frame, and the
\* iteration after a frame that overran produces a frame: no iteration
\* passes without a frame between an overrun frame and the next frame.
C13_NoCatchUp ==
    /\ InFrameIteration => (frameGap >= FRAME_DELAY /\ elapsed = frameGap)
    /\ lockCount <= 1
    /\ (renderPc = "sleep" /\ lockCount = 0) => ~Overran

\* a frame that starts in the iteration after a frame that overran, half a
\* frame period after that frame's end
C13_FrameAfterOverrun ==
    /\ renderPc = "lock" /\ Overran
    /\ frameGap = lastCost + FRAME_DELAY \div 2

\* frames whose pipeline has finished (the phase advance included)
FramesRendered == (MaxFrames - framesLeft) + (IF renderPc = "present" THEN 1 ELSE 0)

IncreaseKeys == {"VK_UP", "VK_RIGHT", "W", "D", "Q", "X", "V", "Y", "J", "M", "L"}
DecreaseKeys == {"VK_DOWN", "VK_LEFT", "S", "A", "E", "Z", "C", "U", "H", "N", "K"}

\* the parameter of cfg that the key k adjusts
Adjusted(cfg, k) ==
    CASE k \in {"VK_UP", "VK_DOWN"}    -> cfg.base_shift
      [] k \in {"VK_RIGHT", "VK_LEFT"} -> cfg.phase_speed
      [] k \in {"W", "S"} -> cfg.vertical_shift
      [] k \in {"D", "A"} -> cfg.color_intensity
      [] k \in {"Q", "E"} -> cfg.wave_amplitude
      [] k \in {"X", "Z"} -> cfg.focus_distance
      [] k \in {"V", "C"} -> cfg.focus_range
      [] k \in {"Y", "U"} -> cfg.iridescence_intensity
      [] k \in {"J", "H"} -> cfg.hue_range
      [] k \in {"M", "N"} -> cfg.iridescence_scale
      [] k \in {"L", "K"} -> cfg.iridescence_speed

\* C15: the handler of an 'increase' key never leaves the parameter it
\* adjusts lower than it was, and the handler of a 'decrease' key never
\* leaves it higher; in particular 'Y' never lowers iridescence_intensity.
C15_KeysMonotone ==
    [][uiPc = "switch" =>
          /\ key \in IncreaseKeys => Adjusted(dcfg', key) >= Adjusted(dcfg, key)
          /\ key \in DecreaseKeys => Adjusted(dcfg', key) <= Adjusted(dcfg, key)]_vars

=============================================================================
